---- MODULE Spec2Model ----
(***************************************************************************)
(* Route-energy planning of ev-flow-charge.                                *)
(*                                                                         *)
(* Two planners are modelled from the source:                              *)
(*   - geometry planning: handleRouteCalculated (EVRouting page), which    *)
(*     calls findStationsAlongRoute and calculateChargingStops             *)
(*     (utils/routingUtils);                                               *)
(*   - sequential planning: handleFormSubmit (EVRouting page), with its    *)
(*     geocoding and routing-provider requests.                            *)
(*                                                                         *)
(* Lengths: coordinates are points of a plane whose unit is one kilometre. *)
(* geolib's getDistance answers in whole metres; on this grid it is the    *)
(* Euclidean distance rounded to the kilometre, times 1000, so the code's  *)
(* "/ 1000" is exact.  fullRangeKm is drawn from divisors of 100, which    *)
(* keeps the code's percentage arithmetic in the integers.                 *)
(***************************************************************************)
EXTENDS Integers, Sequences, FiniteSets, TLC

VARIABLES
    \* ---- the world the handlers read
    stations,          \* useState stations: the loaded station directory
    formData,          \* useState formData: batteryPercent, fullRangeKm, batteryCapacityKWh
    trip,              \* the road between the two places (what the routing provider knows)
    \* ---- control
    mode,              \* "none" | "geometry" | "sequential"
    pc,                \* position of the running handler
    \* ---- locals shared by the two planning loops
    currentBattery,    \* let currentBattery
    \* ---- calculateChargingStops locals
    routePoints,       \* handleRouteCalculated: the route handed to the callback
    nearbyStations,    \* handleRouteCalculated: const nearbyStations
    routeWithStops,    \* const routeWithStops
    totalDistance,     \* let totalDistance
    current,           \* <<currentLat, currentLng>>
    remainingStations, \* let remainingStations
    \* ---- handleFormSubmit locals
    availableStations, \* let availableStations
    osrmPolyline,      \* const osrmPolyline
    stopsLocal,        \* const smartStops (the local array)
    currentIdx,        \* let currentIdx
    stopPoints,        \* let stopPoints
    stranded,          \* the loop left through "if (!found)"
    legIdx,            \* the leg loop's i
    legInFlight,       \* the legs (0-based) whose routing request awaits its response
    legRequests,       \* number of per-leg routing requests issued
    polyLocal,         \* let smartPolyline (the local array)
    \* ---- React state published by the handlers
    routeData,         \* useState routeData (chargingStops part), or Null
    coords,            \* useState coords
    mainPolyline,      \* useState mainPolyline
    mainDistance,      \* useState mainDistance
    smartPolyline,     \* useState smartPolyline
    smartStops,        \* useState smartStops
    smartDistance,     \* useState smartDistance
    smartChargeTimes,  \* useState smartChargeTimes
    minChargeTimes,    \* useState minChargeTimes
    allDisplayStations,\* useState allDisplayStations
    calculating,       \* useState calculating
    toasts,            \* titles of the toasts shown, in order
    \* ---- estimateChargingTime called on its own
    estimate,          \* the call's arguments and, once it returned, its result; or Null
    \* ---- the page used again
    runs,              \* number of planning calls that ended and were followed by another
    previousPlan       \* what the previous call of calculateChargingStops returned, or Null

vars == <<stations, formData, trip, mode, pc, currentBattery, routePoints, nearbyStations,
          routeWithStops, totalDistance, current, remainingStations,
          availableStations, osrmPolyline, stopsLocal, currentIdx, stopPoints,
          stranded, legIdx, legInFlight, legRequests, polyLocal, routeData,
          coords, mainPolyline, mainDistance, smartPolyline, smartStops,
          smartDistance, smartChargeTimes, minChargeTimes, allDisplayStations,
          calculating, toasts, estimate, runs, previousPlan>>

\* null and undefined.
Null == [null |-> TRUE]

\* ------------------------------------------------------------------ bounds

\* Largest number of stations in the directory.
MaxStations == 2

\* The stop-finding loops are followed for at most this many charging stops.
MaxStops == 3

\* ------------------------------------------------------- program constants

MetersPerKm == 1000
SearchRangeStart == 10
SearchRangeStep == 10
SearchRangeMax == 40
LookaheadMargin == 10
MaxFullChargeHours == 3
GeometryBandKm == 25
DisplayBandKm == 15
FullBattery == 100

\* ------------------------------------------------------------- arithmetic

Min(a, b) == IF a <= b THEN a ELSE b
Max(a, b) == IF a >= b THEN a ELSE b
Sq(a) == a * a

\* The least r in lo..hi with n < (r + 1/2)^2.
RECURSIVE LeastRounding(_, _, _)
LeastRounding(n, lo, hi) ==
    IF lo >= hi THEN lo
    ELSE LET mid == (lo + hi) \div 2
         IN  IF 4 * n < Sq(2 * mid + 1)
               THEN LeastRounding(n, lo, mid)
               ELSE LeastRounding(n, mid + 1, hi)

\* The rounded roots of the squares that occur between points of the grid,
\* computed once.
RootTable == [n \in 0..4000 |-> LeastRounding(n, 0, n)]

\* Math.round(Math.sqrt(n)) for a natural n.
RoundSqrt(n) == IF n \in DOMAIN RootTable THEN RootTable[n] ELSE LeastRounding(n, 0, n)

\* geolib getDistance(a, b): metres, rounded to the accuracy unit.
getDistance(a, b) ==
    MetersPerKm * RoundSqrt(Sq(a[1] - b[1]) + Sq(a[2] - b[2]))

\* routingUtils calculateDistance: kilometres.
calculateDistance(lat1, lng1, lat2, lng2) ==
    getDistance(<<lat1, lng1>>, <<lat2, lng2>>) \div MetersPerKm

\* routingUtils getUsableRange is (batteryPercent / 100) * fullRangeKm; the
\* model keeps its hundredfold, batteryPercent * fullRangeKm, and every
\* comparison against it multiplies the other side by 100.
getUsableRangeX100(batteryPercent, fullRangeKm) == batteryPercent * fullRangeKm

\* WithinUsableRange with < for <=.
WithinUsableRangeStrict(distKm, batteryPercent, fullRangeKm) ==
    distKm * 100 < batteryPercent * fullRangeKm

\* dist <= getUsableRange(batteryPercent, fullRangeKm), dist in kilometres.
WithinUsableRange(distKm, batteryPercent, fullRangeKm) ==
    distKm * 100 <= getUsableRangeX100(batteryPercent, fullRangeKm)

\* ------------------------------------------------------------ the inputs

\* Station sites of the checked directories (kilometres; <<latitude, longitude>>):
\* on the road, beside its start, beside its middle, and 25 km off it.
OnRoadNear == <<0, 10>>
BesideStart == <<10, 0>>
BesideMiddle == <<10, 20>>
OnRoadFar == <<0, 30>>
OffRoad == <<25, 20>>

\* The attribute combinations a directory entry takes.
Good == [available_slots |-> 2, power_rating_kw |-> 50, operational_status |-> "Operational"]
Full == [available_slots |-> 0, power_rating_kw |-> 50, operational_status |-> "Operational"]
Slow == [available_slots |-> 2, power_rating_kw |-> 5, operational_status |-> "Operational"]
Dead == [available_slots |-> 2, power_rating_kw |-> 0, operational_status |-> "Operational"]
Maintenance ==
    [available_slots |-> 2, power_rating_kw |-> 50, operational_status |-> "Under Maintenance"]
Closed == [available_slots |-> 2, power_rating_kw |-> 50, operational_status |-> "Closed"]

\* The entries a checked directory is made of: a sound station at every
\* site, and every kind of unfit station where the planners would stop.
Catalogue ==
    { <<OnRoadNear, Good>>, <<BesideStart, Good>>, <<BesideMiddle, Good>>,
      <<OnRoadFar, Good>>, <<OffRoad, Good>>,
      <<OnRoadNear, Full>>, <<OnRoadNear, Slow>>, <<OnRoadNear, Dead>>,
      <<OnRoadNear, Maintenance>>, <<OnRoadNear, Closed>>,
      <<OnRoadFar, Full>>, <<BesideMiddle, Maintenance>> }

\* interface Station, the fields the planners read.
Station(id, site, profile) ==
    [ station_id         |-> id,
      latitude           |-> site[1],
      longitude          |-> site[2],
      available_slots    |-> profile.available_slots,
      power_rating_kw    |-> profile.power_rating_kw,
      operational_status |-> profile.operational_status ]

\* The planning calls made on one page, one after the other.
MaxRuns == 2

\* Directories of at most MaxStations stations with unique ids.
StationLists ==
    UNION { { [i \in 1..n |-> Station(i, f[i][1], f[i][2])] :
                f \in [1..n -> Catalogue] } : n \in 0..MaxStations }

\* Directories of sound stations at three sites, two of them equally far
\* from the start, for a page that plans more than once.
ReplanStationLists ==
    UNION { { [i \in 1..n |-> Station(i, f[i], Good)] :
                f \in [1..n -> {OnRoadNear, BesideStart, OnRoadFar}] } :
            n \in 0..MaxStations }

\* Roads the routing provider knows, as polylines of <<lat, lng>> points.
Routes ==
    { << <<0, 0>>, <<0, 10>>, <<0, 20>>, <<0, 30>> >>,
      << <<0, 0>>, <<0, 10>>, <<0, 20>>, <<0, 30>>, <<0, 40>>, <<0, 50>> >>,
      << <<0, 0>>, <<0, 10>>, <<0, 40>> >> }

\* Values of the form: battery percentage, full range, battery capacity.
FormDatas ==
    [ batteryPercent : {50, 100}, fullRangeKm : {20, 50}, batteryCapacityKWh : {20} ]

\* Values the form's fields hold after typing: those of FormDatas, and a
\* battery percentage above the field's max, which handleInputChange stores
\* like any other.
TypedFormDatas ==
    FormDatas \cup { [batteryPercent |-> 150, fullRangeKm |-> 20, batteryCapacityKWh |-> 20] }

\* ------------------------------------------------- routingUtils, pure parts

\* turf.pointToLineDistance(p, segment a-b) <= maxDistanceKm, decided on
\* squares: the distance to the nearest point of the segment.
SegmentWithin(p, a, b, maxDistanceKm) ==
    LET abx == b[1] - a[1]
        aby == b[2] - a[2]
        apx == p[1] - a[1]
        apy == p[2] - a[2]
        dot == apx * abx + apy * aby
        len2 == abx * abx + aby * aby
        cross == apx * aby - apy * abx
    IN  IF len2 = 0 \/ dot <= 0
          THEN Sq(apx) + Sq(apy) <= Sq(maxDistanceKm)
          ELSE IF dot >= len2
                 THEN Sq(p[1] - b[1]) + Sq(p[2] - b[2]) <= Sq(maxDistanceKm)
                 ELSE Sq(cross) <= Sq(maxDistanceKm) * len2

\* turf.pointToLineDistance(point, routeLine) <= maxDistanceMeters.
PointToLineWithin(p, line, maxDistanceKm) ==
    \E i \in 1..(Len(line) - 1) : SegmentWithin(p, line[i], line[i + 1], maxDistanceKm)

StationPoint(s) == <<s.latitude, s.longitude>>

\* findStationsAlongRoute with the radius a kilometre short.
findStationsAlongRouteShort(points, sts, maxDistanceKm) ==
    SelectSeq(sts, LAMBDA s : PointToLineWithin(StationPoint(s), points, maxDistanceKm - 1))

\* findStationsAlongRoute(routePoints, stations, maxDistanceKm).
findStationsAlongRoute(points, sts, maxDistanceKm) ==
    SelectSeq(sts, LAMBDA s : PointToLineWithin(StationPoint(s), points, maxDistanceKm))

\* calculateTotalRouteDistance(routePoints), kilometres.
RECURSIVE calculateTotalRouteDistance(_)
calculateTotalRouteDistance(points) ==
    IF Len(points) < 2 THEN 0
    ELSE calculateTotalRouteDistance(SubSeq(points, 1, Len(points) - 1))
         + getDistance(points[Len(points) - 1], points[Len(points)]) \div MetersPerKm

\* Array.prototype.slice(from, to) with 0-based indices.
Slice(arr, from, to) == SubSeq(arr, from + 1, Min(to, Len(arr)))

\* interface RoutePoint.
RoutePoint(lat, lng, type, station, batteryLevel, distanceFromStart) ==
    [ lat |-> lat, lng |-> lng, type |-> type, station |-> station,
      batteryLevel |-> batteryLevel, distanceFromStart |-> distanceFromStart ]

\* The minBatteryThreshold handleRouteCalculated passes, in kilometres of
\* remaining range; calculateChargingStops never reads its parameter.
MinBatteryThreshold == 30

\* ------------------------------------------- calculateChargingStops, parts

\* .map(station => ({station, dist})) of the loop body.
WithDist(sts, cur) ==
    [ i \in 1..Len(sts) |->
        [ station |-> sts[i],
          dist |-> calculateDistance(cur[1], cur[2], sts[i].latitude, sts[i].longitude) ] ]

\* One insertion of the stable ascending sort on dist.
InsertByDist(sorted, e) ==
    LET k == Cardinality({ i \in 1..Len(sorted) : sorted[i].dist <= e.dist })
    IN  SubSeq(sorted, 1, k) \o <<e>> \o SubSeq(sorted, k + 1, Len(sorted))

\* .sort((a, b) => a.dist - b.dist): ascending and stable.
RECURSIVE SortByDist(_)
SortByDist(s) ==
    IF s = <<>> THEN <<>>
    ELSE InsertByDist(SortByDist(SubSeq(s, 1, Len(s) - 1)), s[Len(s)])

\* ReachableFilter with the range test lost.
ReachableFilterAll(withDist, battery, fullRangeKm) == withDist

\* .filter(({dist}) => dist <= usableRange) of the loop body.
ReachableFilter(withDist, battery, fullRangeKm) ==
    SelectSeq(withDist, LAMBDA e : WithinUsableRange(e.dist, battery, fullRangeKm))

\* const reachableStations of the loop body.
ReachableStations(remaining, cur, battery, fullRangeKm) ==
    SortByDist(ReachableFilter(WithDist(remaining, cur), battery, fullRangeKm))

\* NextStop with the progress test lost: always the nearest reachable station.
NextStopNearest(reachable, dest, distanceToDest) == reachable[1]

\* let nextStop: the first reachable station strictly closer to the
\* destination than the current position, else reachableStations[0].
NextStop(reachable, dest, distanceToDest) ==
    LET closer == { i \in 1..Len(reachable) :
                      calculateDistance(reachable[i].station.latitude,
                                        reachable[i].station.longitude,
                                        dest[1], dest[2]) < distanceToDest }
    IN  IF closer = {} THEN reachable[1]
        ELSE reachable[CHOOSE i \in closer : \A j \in closer : i <= j]

\* InitialWorkingSet with the working set shared between calls: the stations
\* an earlier call stopped at (as the page still shows them) are gone from it.
InitialWorkingSetShared(sts) ==
    SelectSeq(sts, LAMBDA s :
        \A i \in 1..Len(routeData.chargingStops) :
            routeData.chargingStops[i].type = "charging_stop"
              => routeData.chargingStops[i].station.station_id # s.station_id)

\* let remainingStations = [...stations]: a copy of the argument.
InitialWorkingSet(sts) == sts

\* ArgumentAfter with the working set an alias of the argument, changed in
\* place.
ArgumentAliased(argument, working) == working

\* The stations argument after an iteration: the working set is a copy and
\* is re-bound by filter, so the argument is as it was.
ArgumentAfter(argument, working) == argument

\* RemoveStation with the removal lost.
RemoveStationNone(remaining, id) == remaining

\* remainingStations.filter(s => s.station_id !== nextStop.station.station_id).
RemoveStation(remaining, id) ==
    SelectSeq(remaining, LAMBDA s : s.station_id # id)

\* ChargedBattery with the reset lost.
ChargedBatteryKept(battery) == battery

\* currentBattery = 100 after a charging stop is added.
ChargedBattery(battery) == FullBattery

\* Math.max(0, currentBattery - (distanceKm / fullRangeKm) * 100).
Deplete(battery, distanceKm, fullRangeKm) ==
    Max(0, battery - (distanceKm * 100) \div fullRangeKm)

\* ------------------------------------------------- handleFormSubmit, parts

\* The browser's check of the form's number fields at submit (min, max).
SubmitAllowed(fd) ==
    /\ fd.batteryPercent >= 0 /\ fd.batteryPercent <= 100
    /\ fd.fullRangeKm >= 1
    /\ fd.batteryCapacityKWh >= 1

\* stations.filter(s => s.available_slots > 0 &&
\*                      (batteryCapacityKWh / s.power_rating_kw <= 3)).
\* A division by 0 gives Infinity (the capacity is positive), which is not <= 3.
StationUsable(s, batteryCapacityKWh) ==
    /\ s.available_slots > 0
    /\ s.power_rating_kw # 0
    /\ batteryCapacityKWh <= MaxFullChargeHours * s.power_rating_kw

\* AvailableFilter with the filter lost.
AvailableFilterAll(sts, batteryCapacityKWh) == sts

\* let availableStations.
AvailableFilter(sts, batteryCapacityKWh) ==
    SelectSeq(sts, LAMBDA s : StationUsable(s, batteryCapacityKWh))

\* Kilometres of the polyline segment that ends at 0-based index nextIdx.
SegmentKm(poly, nextIdx) ==
    getDistance(poly[nextIdx], poly[nextIdx + 1]) \div MetersPerKm

\* The inner while loop: nextIdx when it ends.
RECURSIVE WalkFrom(_, _, _, _, _)
WalkFrom(poly, nextIdx, distance, battery, fullRangeKm) ==
    IF /\ nextIdx < Len(poly)
       /\ WithinUsableRange(distance + SegmentKm(poly, nextIdx), battery, fullRangeKm)
    THEN WalkFrom(poly, nextIdx + 1, distance + SegmentKm(poly, nextIdx),
                  battery, fullRangeKm)
    ELSE nextIdx

\* The test of candidateStations' filter: within usable range of
\* osrmPolyline[currentIdx].
ReachableFrom(origin, s, battery, fullRangeKm) ==
    WithinUsableRange(getDistance(origin, StationPoint(s)) \div MetersPerKm,
                      battery, fullRangeKm)

\* const candidateStations, for one searchRange.
CandidateStations(poly, avail, curIdx, nextIdx, searchRange, battery, fullRangeKm) ==
    SelectSeq(findStationsAlongRoute(Slice(poly, curIdx, nextIdx + LookaheadMargin),
                                     avail, searchRange),
              LAMBDA s : ReachableFrom(poly[curIdx + 1], s, battery, fullRangeKm))

\* The values searchRange takes in the for loop.
SearchRanges ==
    { r \in SearchRangeStart..SearchRangeMax : (r - SearchRangeStart) % SearchRangeStep = 0 }

\* FoundRange with the early exit of the for loop lost: the widest range
\* that has candidates.
FoundRangeWidest(poly, avail, curIdx, nextIdx, battery, fullRangeKm) ==
    LET nonEmpty == { r \in SearchRanges :
                        CandidateStations(poly, avail, curIdx, nextIdx, r,
                                          battery, fullRangeKm) # <<>> }
    IN  IF nonEmpty = {} THEN 0
        ELSE CHOOSE r \in nonEmpty : \A q \in nonEmpty : r >= q

\* The searchRange at which the for loop finds candidates, 0 when none does.
FoundRange(poly, avail, curIdx, nextIdx, battery, fullRangeKm) ==
    LET nonEmpty == { r \in SearchRanges :
                        CandidateStations(poly, avail, curIdx, nextIdx, r,
                                          battery, fullRangeKm) # <<>> }
    IN  IF nonEmpty = {} THEN 0
        ELSE CHOOSE r \in nonEmpty : \A q \in nonEmpty : r <= q

\* BestStation with the comparison lost: the first candidate.
BestStationFirst(cands, runOut) == cands[1]

\* let bestStation: the first candidate at minimum distance from runOut.
BestStation(cands, runOut) ==
    cands[CHOOSE i \in 1..Len(cands) :
            \A j \in 1..Len(cands) :
                \/ getDistance(runOut, StationPoint(cands[i]))
                     < getDistance(runOut, StationPoint(cands[j]))
                \/ /\ getDistance(runOut, StationPoint(cands[i]))
                        = getDistance(runOut, StationPoint(cands[j]))
                   /\ i <= j]

\* fetchOsrmRoutePolyline(start, end) when it succeeds: the stretch of the
\* known road between two of its points, the direct road otherwise.
OsrmRoute(start, end, road) ==
    LET stretches == { ab \in (1..Len(road)) \X (1..Len(road)) :
                         /\ ab[1] < ab[2]
                         /\ road[ab[1]] = start
                         /\ road[ab[2]] = end }
    IN  IF stretches = {} THEN <<start, end>>
        ELSE LET ab == CHOOSE ab \in stretches : TRUE
             IN  SubSeq(road, ab[1], ab[2])

\* AppendLeg with the slice lost: every leg is appended whole.
AppendLegWhole(poly, leg, i) == IF i = 0 THEN leg ELSE poly \o leg

\* if (i === 0) smartPolyline = leg; else smartPolyline =
\* smartPolyline.concat(leg.slice(1)).
AppendLeg(poly, leg, i) == IF i = 0 THEN leg ELSE poly \o Slice(leg, 1, Len(leg))

\* LegLoopAwaits with the await lost: the loop runs on while requests are
\* in flight.
LegLoopRunsOn(inFlight) == TRUE

\* await fetchOsrmRoutePolyline(...) in the leg loop: the loop goes on only
\* when no request awaits its response.
LegLoopAwaits(inFlight) == inFlight = {}

\* powerKw || 1
PowerOrOne(powerKw) == IF powerKw = 0 THEN 1 ELSE powerKw

\* estimateChargingTime, hours, as the fraction num / den.
estimateChargingTime(distanceKm, fullRangeKm, powerKw, batteryCapacityKWh) ==
    [ num |-> distanceKm * batteryCapacityKWh,
      den |-> fullRangeKm * PowerOrOne(powerKw) ]

\* optimal > 0.01 ? optimal : 0
ClampChargeTime(t) ==
    IF t.num * 100 > t.den THEN t ELSE [num |-> 0, den |-> 1]

\* let nextLegKm of the charge-time loop, for 1-based stop i.
NextLegKm(stops, poly, i) ==
    IF i < Len(stops)
      THEN getDistance(<<stops[i].lat, stops[i].lng>>,
                       <<stops[i + 1].lat, stops[i + 1].lng>>) \div MetersPerKm
      ELSE IF Len(poly) > 1
             THEN getDistance(<<stops[i].lat, stops[i].lng>>, poly[Len(poly)])
                    \div MetersPerKm
             ELSE 0

\* const smartChargeTimesArr (minChargeTimesArr holds the same values).
ChargeTimes(stops, poly, fd) ==
    [ i \in 1..Len(stops) |->
        ClampChargeTime(estimateChargingTime(NextLegKm(stops, poly, i), fd.fullRangeKm,
                                             stops[i].station.power_rating_kw,
                                             fd.batteryCapacityKWh)) ]

\* ----------------------------------------------------------------- Init

\* routeData as a page holds it once a route is shown.
ShownRouteData == [chargingStops |-> <<>>, totalDistance |-> 0]

CoordsOf(road) ==
    [ startLat |-> road[1][1], startLng |-> road[1][2],
      destLat |-> road[Len(road)][1], destLng |-> road[Len(road)][2] ]

\* The page with the station directory loaded and no handler running.
\* handleRouteCalculated acts only on a page whose routeData and coords are
\* set, so the page starts with both set for the trip at hand.
PageInit ==
    /\ mode = "none"
    /\ pc = "idle"
    /\ currentBattery = 0
    /\ routePoints = <<>>
    /\ nearbyStations = <<>>
    /\ routeWithStops = <<>>
    /\ totalDistance = 0
    /\ current = <<0, 0>>
    /\ remainingStations = <<>>
    /\ availableStations = <<>>
    /\ osrmPolyline = <<>>
    /\ stopsLocal = <<>>
    /\ currentIdx = 0
    /\ stopPoints = <<>>
    /\ stranded = FALSE
    /\ legIdx = 0
    /\ legInFlight = {}
    /\ legRequests = 0
    /\ polyLocal = <<>>
    /\ routeData = ShownRouteData
    /\ coords = CoordsOf(trip)
    /\ mainPolyline = <<>>
    /\ mainDistance = 0
    /\ smartPolyline = <<>>
    /\ smartStops = <<>>
    /\ smartDistance = 0
    /\ smartChargeTimes = <<>>
    /\ minChargeTimes = <<>>
    /\ allDisplayStations = <<>>
    /\ calculating = FALSE
    /\ toasts = <<>>

Init ==
    /\ stations \in StationLists
    /\ formData \in FormDatas
    /\ trip \in Routes
    /\ estimate = Null
    /\ runs = 0
    /\ previousPlan = Null
    /\ PageInit

seqLocals == <<availableStations, osrmPolyline, stopsLocal, currentIdx, stopPoints,
               stranded, legIdx, legInFlight, legRequests, polyLocal>>
geoLocals == <<routePoints, nearbyStations, routeWithStops, totalDistance, current,
               remainingStations>>
seqPublished == <<mainPolyline, mainDistance, smartPolyline, smartStops, smartDistance,
                  smartChargeTimes, minChargeTimes, allDisplayStations>>
world == <<stations, formData, trip>>
apart == <<estimate, runs, previousPlan>>

\* ------------------------------------------------- geometry planning

\* handleRouteCalculated up to the loop of calculateChargingStops: the guard,
\* findStationsAlongRoute, and the function's prologue (the start point).
HandleRouteCalculated ==
    /\ pc = "idle"
    /\ routeData # Null /\ coords # Null
    /\ mode' = "geometry"
    /\ routePoints' = trip
    /\ nearbyStations' = findStationsAlongRoute(trip, stations, GeometryBandKm)
    /\ currentBattery' = formData.batteryPercent
    /\ totalDistance' = 0
    /\ current' = trip[1]
    /\ remainingStations' = InitialWorkingSet(nearbyStations')
    /\ routeWithStops' = << RoutePoint(trip[1][1], trip[1][2], "start", Null,
                                       formData.batteryPercent, 0) >>
    /\ pc' = "geoLoop"
    /\ UNCHANGED <<world, apart, seqLocals, seqPublished, routeData, coords, calculating, toasts>>

GeoDest == routePoints[Len(routePoints)]
GeoDistanceToDest == calculateDistance(current[1], current[2], GeoDest[1], GeoDest[2])
GeoReachable ==
    ReachableStations(remainingStations, current, currentBattery, formData.fullRangeKm)

\* One iteration that ends at "Can reach destination".
GeoReachDestination ==
    /\ pc = "geoLoop"
    /\ WithinUsableRange(GeoDistanceToDest, currentBattery, formData.fullRangeKm)
    /\ totalDistance' = totalDistance + GeoDistanceToDest
    /\ currentBattery' = Deplete(currentBattery, GeoDistanceToDest, formData.fullRangeKm)
    /\ routeWithStops' = Append(routeWithStops,
           RoutePoint(GeoDest[1], GeoDest[2], "destination", Null,
                      currentBattery', totalDistance'))
    /\ pc' = "geoReturn"
    /\ UNCHANGED <<world, apart, mode, routePoints, nearbyStations, current, remainingStations,
                   seqLocals, seqPublished, routeData, coords, calculating, toasts>>

\* One iteration that ends at "No reachable stations, cannot proceed".
GeoNoReachable ==
    /\ pc = "geoLoop"
    /\ ~WithinUsableRange(GeoDistanceToDest, currentBattery, formData.fullRangeKm)
    /\ GeoReachable = <<>>
    /\ pc' = "geoReturn"
    /\ UNCHANGED <<world, apart, mode, currentBattery, geoLocals, seqLocals, seqPublished,
                   routeData, coords, calculating, toasts>>

\* One iteration that adds a charging stop.
GeoAddStop ==
    /\ pc = "geoLoop"
    /\ ~WithinUsableRange(GeoDistanceToDest, currentBattery, formData.fullRangeKm)
    /\ GeoReachable # <<>>
    /\ LET nextStop == NextStop(GeoReachable, GeoDest, GeoDistanceToDest)
       IN  /\ totalDistance' = totalDistance + nextStop.dist
           /\ routeWithStops' = Append(routeWithStops,
                  RoutePoint(nextStop.station.latitude, nextStop.station.longitude,
                             "charging_stop", nextStop.station, currentBattery,
                             totalDistance' - nextStop.dist))
           /\ currentBattery' = ChargedBattery(currentBattery)
           /\ current' = StationPoint(nextStop.station)
           /\ remainingStations' =
                  RemoveStation(remainingStations, nextStop.station.station_id)
    /\ nearbyStations' = ArgumentAfter(nearbyStations, remainingStations')
    /\ UNCHANGED <<world, apart, mode, pc, routePoints, seqLocals, seqPublished,
                   routeData, coords, calculating, toasts>>

\* calculateChargingStops returns and handleRouteCalculated publishes the
\* list with setRouteData.
GeoReturn ==
    /\ pc = "geoReturn"
    /\ routeData' = [ chargingStops |-> routeWithStops,
                      totalDistance |-> calculateTotalRouteDistance(routePoints) ]
    /\ pc' = "done"
    /\ UNCHANGED <<world, apart, mode, currentBattery, geoLocals, seqLocals, seqPublished,
                   coords, calculating, toasts>>

\* ------------------------------------------------- sequential planning

\* handleFormSubmit up to the await of the two geocode calls.
HandleFormSubmit ==
    /\ pc = "idle"
    /\ SubmitAllowed(formData)
    /\ mode' = "sequential"
    /\ calculating' = TRUE
    /\ mainPolyline' = <<>>
    /\ smartPolyline' = <<>>
    /\ smartStops' = <<>>
    /\ mainDistance' = 0
    /\ smartDistance' = 0
    /\ smartChargeTimes' = <<>>
    /\ minChargeTimes' = <<>>
    /\ coords' = Null
    /\ pc' = "geocode"
    /\ UNCHANGED <<world, apart, currentBattery, geoLocals, seqLocals, allDisplayStations,
                   routeData, toasts>>

\* GeocodeNotFound with the return lost: the toast is shown and the attempt
\* goes on to request the main route.
GeocodeNotFoundGoesOn ==
    /\ pc = "geocode"
    /\ toasts' = Append(toasts, "Location Error")
    /\ pc' = "fetchMain"
    /\ UNCHANGED <<world, apart, mode, currentBattery, geoLocals, seqLocals, seqPublished,
                   routeData, coords, calculating>>

\* Promise.all of the geocode calls resolves with a place not found.
GeocodeNotFound ==
    /\ pc = "geocode"
    /\ toasts' = Append(toasts, "Location Error")
    /\ calculating' = FALSE
    /\ pc' = "done"
    /\ UNCHANGED <<world, apart, mode, currentBattery, geoLocals, seqLocals, seqPublished,
                   routeData, coords>>

\* Both places are found: setCoords, the station filter, and the request
\* for the main route.
GeocodeFound ==
    /\ pc = "geocode"
    /\ coords' = CoordsOf(trip)
    /\ availableStations' = AvailableFilter(stations, formData.batteryCapacityKWh)
    /\ pc' = "fetchMain"
    /\ UNCHANGED <<world, apart, mode, currentBattery, geoLocals, osrmPolyline, stopsLocal,
                   currentIdx, stopPoints, stranded, legIdx, legInFlight, legRequests,
                   polyLocal, seqPublished, routeData, calculating, toasts>>

\* catch (error) and finally of handleFormSubmit.
CatchAndFinally ==
    /\ toasts' = Append(toasts, "Error")
    /\ calculating' = FALSE
    /\ pc' = "done"

\* fetchOsrmRoutePolyline for the main route throws.
MainRouteFails ==
    /\ pc = "fetchMain"
    /\ CatchAndFinally
    /\ UNCHANGED <<world, apart, mode, currentBattery, geoLocals, seqLocals, seqPublished,
                   routeData, coords>>

\* The main route arrives: setMainPolyline, setMainDistance and the locals
\* of the stop-finding loop.
MainRouteArrives ==
    /\ pc = "fetchMain"
    /\ osrmPolyline' = OsrmRoute(trip[1], trip[Len(trip)], trip)
    /\ mainPolyline' = osrmPolyline'
    /\ mainDistance' = calculateTotalRouteDistance(osrmPolyline')
    /\ stopsLocal' = <<>>
    /\ currentBattery' = formData.batteryPercent
    /\ currentIdx' = 0
    /\ stopPoints' = << trip[1] >>
    /\ pc' = "loop"
    /\ UNCHANGED <<world, apart, mode, geoLocals, availableStations, stranded, legIdx,
                   legInFlight, legRequests, polyLocal, smartPolyline, smartStops,
                   smartDistance, smartChargeTimes, minChargeTimes, allDisplayStations,
                   routeData, coords, calculating, toasts>>

SeqNextIdx ==
    WalkFrom(osrmPolyline, currentIdx + 1, 0, currentBattery, formData.fullRangeKm)
SeqFoundRange ==
    FoundRange(osrmPolyline, availableStations, currentIdx, SeqNextIdx, currentBattery,
               formData.fullRangeKm)

\* One iteration of the outer while loop that reaches the end of the
\* polyline: the destination is pushed and the loop is left.
SeqReachEnd ==
    /\ pc = "loop"
    /\ currentIdx < Len(osrmPolyline) - 1
    /\ SeqNextIdx >= Len(osrmPolyline)
    /\ stopPoints' = Append(stopPoints, trip[Len(trip)])
    /\ pc' = "legs"
    /\ UNCHANGED <<world, apart, mode, currentBattery, geoLocals, availableStations,
                   osrmPolyline, stopsLocal, currentIdx, stranded, legIdx, legInFlight,
                   legRequests, polyLocal, seqPublished, routeData, coords,
                   calculating, toasts>>

\* One iteration in which a search range yields candidates: a stop is added.
SeqAddStop ==
    /\ pc = "loop"
    /\ Len(stopsLocal) < MaxStops
    /\ currentIdx < Len(osrmPolyline) - 1
    /\ SeqNextIdx < Len(osrmPolyline)
    /\ SeqFoundRange # 0
    /\ LET nextIdx == SeqNextIdx
           cands == CandidateStations(osrmPolyline, availableStations, currentIdx,
                                      nextIdx, SeqFoundRange, currentBattery,
                                      formData.fullRangeKm)
           bestStation == BestStation(cands, osrmPolyline[nextIdx])
       IN  /\ stopPoints' = Append(stopPoints, StationPoint(bestStation))
           /\ stopsLocal' = Append(stopsLocal,
                  RoutePoint(bestStation.latitude, bestStation.longitude,
                             "charging_stop", bestStation, currentBattery,
                             calculateTotalRouteDistance(Slice(osrmPolyline, 0, nextIdx))))
           /\ currentBattery' = ChargedBattery(currentBattery)
           /\ currentIdx' = nextIdx - 1
    /\ UNCHANGED <<world, apart, mode, pc, geoLocals, availableStations, osrmPolyline, stranded,
                   legIdx, legInFlight, legRequests, polyLocal, seqPublished, routeData,
                   coords, calculating, toasts>>

\* One iteration in which no search range up to the maximum yields a
\* candidate: the toast, and the loop is left.
SeqNotFound ==
    /\ pc = "loop"
    /\ currentIdx < Len(osrmPolyline) - 1
    /\ SeqNextIdx < Len(osrmPolyline)
    /\ SeqFoundRange = 0
    /\ toasts' = Append(toasts, "No Charging Station")
    /\ stranded' = TRUE
    /\ pc' = "legs"
    /\ UNCHANGED <<world, apart, mode, currentBattery, geoLocals, availableStations,
                   osrmPolyline, stopsLocal, currentIdx, stopPoints, legIdx, legInFlight,
                   legRequests, polyLocal, seqPublished, routeData, coords, calculating>>

\* The leg loop issues the request for the next leg, once it awaits none.
LegRequest ==
    /\ pc = "legs"
    /\ LegLoopAwaits(legInFlight)
    /\ legRequests < Len(stopPoints) - 1
    /\ legInFlight' = legInFlight \cup {legRequests}
    /\ legRequests' = legRequests + 1
    /\ UNCHANGED <<world, apart, mode, pc, currentBattery, geoLocals, availableStations,
                   osrmPolyline, stopsLocal, currentIdx, stopPoints, stranded, legIdx,
                   polyLocal, seqPublished, routeData, coords, calculating, toasts>>

\* LegArrives with setSmartPolyline moved into the leg loop: the route so
\* far is published as each leg arrives.
LegArrivesPublishing ==
    /\ pc = "legs"
    /\ \E i \in legInFlight :
          /\ polyLocal' = AppendLeg(polyLocal,
                                    OsrmRoute(stopPoints[i + 1], stopPoints[i + 2], trip), i)
          /\ legInFlight' = legInFlight \ {i}
    /\ legIdx' = legIdx + 1
    /\ smartPolyline' = polyLocal'
    /\ UNCHANGED <<world, apart, mode, pc, currentBattery, geoLocals, availableStations,
                   osrmPolyline, stopsLocal, currentIdx, stopPoints, stranded,
                   legRequests, mainPolyline, mainDistance, smartStops, smartDistance,
                   smartChargeTimes, minChargeTimes, allDisplayStations, routeData,
                   coords, calculating, toasts>>

\* The leg arrives and is appended without its first point (the first leg
\* is taken whole).
LegArrives ==
    /\ pc = "legs"
    /\ \E i \in legInFlight :
          /\ polyLocal' = AppendLeg(polyLocal,
                                    OsrmRoute(stopPoints[i + 1], stopPoints[i + 2], trip), i)
          /\ legInFlight' = legInFlight \ {i}
    /\ legIdx' = legIdx + 1
    /\ UNCHANGED <<world, apart, mode, pc, currentBattery, geoLocals, availableStations,
                   osrmPolyline, stopsLocal, currentIdx, stopPoints, stranded,
                   legRequests, seqPublished, routeData, coords, calculating, toasts>>

\* fetchOsrmRoutePolyline for a leg throws.
LegFails ==
    /\ pc = "legs"
    /\ legInFlight # {}
    /\ legInFlight' = {}
    /\ CatchAndFinally
    /\ UNCHANGED <<world, apart, mode, currentBattery, geoLocals, availableStations,
                   osrmPolyline, stopsLocal, currentIdx, stopPoints, stranded, legIdx,
                   legRequests, polyLocal, seqPublished, routeData, coords>>

\* After the leg loop: the smart route, its stops, distance and charge times
\* are published, then the display stations and the success toast; finally.
PublishSmartRoute ==
    /\ pc = "legs"
    /\ legInFlight = {}
    /\ legIdx >= Len(stopPoints) - 1
    /\ smartPolyline' = polyLocal
    /\ smartStops' = stopsLocal
    /\ smartDistance' = calculateTotalRouteDistance(polyLocal)
    /\ smartChargeTimes' = ChargeTimes(stopsLocal, polyLocal, formData)
    /\ minChargeTimes' = smartChargeTimes'
    /\ allDisplayStations' = findStationsAlongRoute(osrmPolyline, stations, DisplayBandKm)
    /\ toasts' = Append(toasts, "Routes Calculated")
    /\ calculating' = FALSE
    /\ pc' = "done"
    /\ UNCHANGED <<world, apart, mode, currentBattery, geoLocals, seqLocals, mainPolyline,
                   mainDistance, routeData, coords>>

\* ----------------------------------------------------------------- Next

Next ==
    \/ HandleRouteCalculated
    \/ GeoReachDestination
    \/ GeoNoReachable
    \/ GeoAddStop
    \/ GeoReturn
    \/ HandleFormSubmit
    \/ GeocodeNotFound
    \/ GeocodeFound
    \/ MainRouteFails
    \/ MainRouteArrives
    \/ SeqReachEnd
    \/ SeqAddStop
    \/ SeqNotFound
    \/ LegRequest
    \/ LegArrives
    \/ LegFails
    \/ PublishSmartRoute

Spec == Init /\ [][Next]_vars

\* ------------------------------------ estimateChargingTime on its own

\* useState formData as the page sets it up.
DefaultFormData == [batteryPercent |-> 80, fullRangeKm |-> 300, batteryCapacityKWh |-> 20]

\* The arguments estimateChargingTime is called with: distances from none to
\* 80 km, full ranges and battery capacities of at least 1, power ratings
\* from 0 up.
EstimateCalls ==
    [ distanceKm : {0, 10, 80}, fullRangeKm : {20, 50, 320}, powerKw : {0, 5, 50},
      batteryCapacityKWh : {20, 40} ]

\* The page at rest, and a call of estimateChargingTime about to run.
InitEstimate ==
    /\ stations = <<>>
    /\ formData = DefaultFormData
    /\ trip \in Routes
    /\ estimate \in [call : EstimateCalls, hours : {Null}]
    /\ runs = 0
    /\ previousPlan = Null
    /\ PageInit

\* estimateChargingTime runs and returns.
EstimateReturns ==
    /\ estimate # Null
    /\ estimate.hours = Null
    /\ estimate' = [estimate EXCEPT !.hours =
                        estimateChargingTime(estimate.call.distanceKm,
                                             estimate.call.fullRangeKm,
                                             estimate.call.powerKw,
                                             estimate.call.batteryCapacityKWh)]
    /\ UNCHANGED <<world, runs, previousPlan, mode, pc, currentBattery, geoLocals,
                   seqLocals, seqPublished, routeData, coords, calculating, toasts>>

NextEstimate == EstimateReturns

SpecEstimate == InitEstimate /\ [][NextEstimate]_vars

\* ------------------------------------------------ the page used again

\* The page at rest with a directory of sound stations and the form as typed.
InitReplan ==
    /\ stations \in ReplanStationLists
    /\ formData \in TypedFormDatas
    /\ trip \in Routes
    /\ estimate = Null
    /\ runs = 0
    /\ previousPlan = Null
    /\ PageInit

\* A handler has ended and the page is used for another planning call: the
\* locals of the ended call are gone, the React state stays.
Replan ==
    /\ pc = "done"
    /\ runs + 1 < MaxRuns
    /\ runs' = runs + 1
    /\ previousPlan' = IF mode = "geometry" THEN [stops |-> routeWithStops]
                                           ELSE previousPlan
    /\ pc' = "idle"
    /\ mode' = "none"
    /\ currentBattery' = 0
    /\ routePoints' = <<>>
    /\ nearbyStations' = <<>>
    /\ routeWithStops' = <<>>
    /\ totalDistance' = 0
    /\ current' = <<0, 0>>
    /\ remainingStations' = <<>>
    /\ availableStations' = <<>>
    /\ osrmPolyline' = <<>>
    /\ stopsLocal' = <<>>
    /\ currentIdx' = 0
    /\ stopPoints' = <<>>
    /\ stranded' = FALSE
    /\ legIdx' = 0
    /\ legInFlight' = {}
    /\ legRequests' = 0
    /\ polyLocal' = <<>>
    /\ UNCHANGED <<world, estimate, seqPublished, routeData, coords, calculating, toasts>>

NextReplan ==
    \/ Next
    \/ Replan

SpecReplan == InitReplan /\ [][NextReplan]_vars

\* ============================================================== claims

\* The charging stops of a stop list.
ChargingStopsOf(stops) == SelectSeq(stops, LAMBDA p : p.type = "charging_stop")

\* No station_id occurs twice among the charging stops of a stop list.
NoStationTwice(stops) ==
    \A i, j \in 1..Len(stops) :
        (/\ i < j
         /\ stops[i].type = "charging_stop"
         /\ stops[j].type = "charging_stop")
        => stops[i].station.station_id # stops[j].station.station_id

\* The battery percentage with which the vehicle leaves entry i of a plan.
DepartureBattery(i) == IF i = 1 THEN formData.batteryPercent ELSE FullBattery

\* C1: in every stop list of geometry planning, each leg between consecutive
\* entries is no longer (straight line) than the usable range at departure:
\* batteryPercent/100 * fullRangeKm for the first leg, fullRangeKm after a
\* charging stop.
C1_GeometryLegsWithinRange ==
    mode = "geometry" =>
        \A i \in 1..(Len(routeWithStops) - 1) :
            calculateDistance(routeWithStops[i].lat, routeWithStops[i].lng,
                              routeWithStops[i + 1].lat, routeWithStops[i + 1].lng) * 100
              <= DepartureBattery(i) * formData.fullRangeKm

\* A geometry plan with a charging stop reached on a partly charged battery
\* and a destination after it.
C1_Witness ==
    /\ mode = "geometry"
    /\ pc = "done"
    /\ formData.batteryPercent < FullBattery
    /\ Len(routeWithStops) >= 3
    /\ routeWithStops[2].type = "charging_stop"
    /\ routeWithStops[Len(routeWithStops)].type = "destination"

\* C2: in every plan of sequential planning, each entry of stopPoints is
\* within straight-line usable range of the entry before it, from which the
\* vehicle departs (the origin on the initial battery, a charging station on
\* a full one), the destination included.
C2_SequentialLegsWithinRange ==
    mode = "sequential" =>
        \A i \in 1..(Len(stopPoints) - 1) :
            (getDistance(stopPoints[i], stopPoints[i + 1]) \div MetersPerKm) * 100
              <= DepartureBattery(i) * formData.fullRangeKm

\* C3: geometry planning hands its caller either a plan whose last stop is
\* the destination or a distinct Stranded outcome; a stop list without a
\* destination is never published as a plan.
C3_GeometryStrandedIsDistinct ==
    (mode = "geometry" /\ pc = "done") =>
        routeData.chargingStops[Len(routeData.chargingStops)].type = "destination"

\* C4: a sequential planning attempt that finds no candidate station in any
\* search range publishes no smart polyline, no charging stops, no charge
\* times and no "Routes Calculated" toast.
C4_SequentialStrandedPublishesNothing ==
    (mode = "sequential" /\ stranded) =>
        /\ smartPolyline = <<>>
        /\ smartStops = <<>>
        /\ smartChargeTimes = <<>>
        /\ minChargeTimes = <<>>
        /\ \A i \in 1..Len(toasts) : toasts[i] # "Routes Calculated"

\* C5: in geometry planning no station (by station_id) is the station of
\* more than one charging stop of a result, the ids of the directory being
\* unique.
C5_GeometryNoStationTwice ==
    mode = "geometry" =>
        /\ NoStationTwice(routeWithStops)
        /\ NoStationTwice(routeData.chargingStops)
        /\ \A i \in 1..Len(routeWithStops) :
              routeWithStops[i].type = "charging_stop" =>
                  \A k \in 1..Len(remainingStations) :
                      remainingStations[k].station_id
                        # routeWithStops[i].station.station_id

\* A geometry result with two charging stops, the second found among the
\* stations left after the first was removed.
C5_Witness ==
    /\ mode = "geometry"
    /\ pc = "done"
    /\ Len(ChargingStopsOf(routeData.chargingStops)) = 2

\* C6: in sequential planning no station is chosen for two charging stops of
\* the same plan: no station appears twice in smartStops.
C6_SequentialNoStationTwice ==
    mode = "sequential" => NoStationTwice(smartStops)

\* C7: every station chosen as a charging stop by sequential planning has
\* available_slots > 0, a power rating other than 0, and a full-charge time
\* batteryCapacityKWh / power_rating_kw of at most 3 hours.
C7_SequentialStopsAreFit ==
    mode = "sequential" =>
        \A i \in 1..Len(stopsLocal) :
            /\ stopsLocal[i].station.available_slots > 0
            /\ stopsLocal[i].station.power_rating_kw > 0
            /\ formData.batteryCapacityKWh
                 <= MaxFullChargeHours * stopsLocal[i].station.power_rating_kw

\* Sequential planning chose a station although the first entry of the
\* directory, no farther from the start, has no free slot, no power or a
\* full-charge time above 3 hours.
C7_Witness ==
    /\ mode = "sequential"
    /\ Len(stopsLocal) >= 1
    /\ Len(stations) = 2
    /\ StationPoint(stations[1]) = OnRoadNear
    /\ \/ stations[1].available_slots = 0
       \/ stations[1].power_rating_kw = 0
       \/ formData.batteryCapacityKWh > MaxFullChargeHours * stations[1].power_rating_kw
    /\ stopsLocal[1].station = stations[2]
    /\ StationPoint(stations[2]) = OnRoadNear

\* C8: in geometry planning a station with available_slots = 0 is never the
\* station of a charging stop.
C8_GeometryNoFullStation ==
    mode = "geometry" =>
        \A i \in 1..Len(routeWithStops) :
            routeWithStops[i].type = "charging_stop" =>
                routeWithStops[i].station.available_slots > 0

\* C9: in both planning modes only stations whose operational_status is
\* Operational are the station of a charging stop.
C9_OnlyOperationalStations ==
    /\ \A i \in 1..Len(routeWithStops) :
          routeWithStops[i].type = "charging_stop" =>
              routeWithStops[i].station.operational_status = "Operational"
    /\ \A i \in 1..Len(stopsLocal) :
          stopsLocal[i].station.operational_status = "Operational"

\* A step of a planning loop that appends a charging stop.
AppendsChargingStop ==
    \/ /\ Len(routeWithStops') = Len(routeWithStops) + 1
       /\ routeWithStops'[Len(routeWithStops')].type = "charging_stop"
    \/ Len(stopsLocal') = Len(stopsLocal) + 1

\* C10: in both planning modes the step that appends a charging stop leaves
\* the current battery at exactly 100, and no other step of the loops raises
\* the battery: the only other change is the depletion on arrival at the
\* destination.
C10_BatteryResetAtStopOnly ==
    [][ (pc \in {"geoLoop", "loop"}) =>
          /\ AppendsChargingStop => currentBattery' = 100
          /\ (~AppendsChargingStop) => currentBattery' <= currentBattery
          /\ (~AppendsChargingStop /\ currentBattery' # currentBattery) =>
                 /\ pc = "geoLoop"
                 /\ routeWithStops'[Len(routeWithStops')].type = "destination" ]_vars

\* A charging stop has just been appended by sequential planning that set
\* out on a half-charged battery, and the loop goes on with 100.
C10_Witness ==
    /\ mode = "sequential"
    /\ pc = "loop"
    /\ formData.batteryPercent = 50
    /\ Len(stopsLocal) = 1
    /\ currentBattery = 100

\* The stations left that lie within usable range of the current position,
\* and those of them strictly closer to the destination than that position.
C11_Reachable ==
    { k \in 1..Len(remainingStations) :
        calculateDistance(current[1], current[2], remainingStations[k].latitude,
                          remainingStations[k].longitude) * 100
          <= currentBattery * formData.fullRangeKm }
C11_Closer ==
    { k \in C11_Reachable :
        calculateDistance(remainingStations[k].latitude, remainingStations[k].longitude,
                          routePoints[Len(routePoints)][1],
                          routePoints[Len(routePoints)][2])
          < calculateDistance(current[1], current[2], routePoints[Len(routePoints)][1],
                              routePoints[Len(routePoints)][2]) }

\* C11: a step of geometry planning that appends a charging stop takes a
\* station that is reachable and no farther from the current position than
\* any reachable station strictly closer to the destination; when no
\* reachable station is strictly closer to the destination, one no farther
\* than any reachable station.
C11_GeometryTieBreak ==
    [][ (/\ pc = "geoLoop"
         /\ Len(routeWithStops') = Len(routeWithStops) + 1
         /\ routeWithStops'[Len(routeWithStops')].type = "charging_stop")
        => LET among == IF C11_Closer # {} THEN C11_Closer ELSE C11_Reachable
           IN  \E k \in among :
                 /\ remainingStations[k] = routeWithStops'[Len(routeWithStops')].station
                 /\ \A j \in among :
                      calculateDistance(current[1], current[2],
                                        remainingStations[k].latitude,
                                        remainingStations[k].longitude)
                        <= calculateDistance(current[1], current[2],
                                             remainingStations[j].latitude,
                                             remainingStations[j].longitude) ]_vars

\* Geometry planning passed over the first station of the directory, which
\* is beside the start, as near as the second but no closer to the
\* destination, and stopped at the second.
C11_Witness ==
    /\ mode = "geometry"
    /\ Len(stations) = 2
    /\ StationPoint(stations[1]) = BesideStart
    /\ StationPoint(stations[2]) = OnRoadNear
    /\ Len(routeWithStops) >= 2
    /\ routeWithStops[2].type = "charging_stop"
    /\ routeWithStops[2].station = stations[2]

\* A step of the sequential loop that appends a charging stop.
SeqAppendsStop == pc = "loop" /\ Len(stopsLocal') = Len(stopsLocal) + 1

\* C12: the station of a charging stop appended by sequential planning is,
\* among the candidates of the search range used, at minimum straight-line
\* distance from the run-out point osrmPolyline[nextIdx - 1]; among
\* candidates at that same distance it is the earliest of the station input
\* (where station_id is the position).
C12_SequentialSelection ==
    [][ SeqAppendsStop =>
          LET runOut == osrmPolyline[SeqNextIdx]
              cands == CandidateStations(osrmPolyline, availableStations, currentIdx,
                                         SeqNextIdx, SeqFoundRange, currentBattery,
                                         formData.fullRangeKm)
              chosen == stopsLocal'[Len(stopsLocal')].station
          IN  /\ \E i \in 1..Len(cands) : cands[i] = chosen
              /\ \A i \in 1..Len(cands) :
                   /\ getDistance(runOut, StationPoint(chosen))
                        <= getDistance(runOut, StationPoint(cands[i]))
                   /\ getDistance(runOut, StationPoint(chosen))
                        = getDistance(runOut, StationPoint(cands[i]))
                      => chosen.station_id <= cands[i].station_id ]_vars

\* Sequential planning stopped at the second station of the directory, on
\* the road at the run-out point, although the first, beside the start, is
\* as near to the current position.
C12_Witness ==
    /\ mode = "sequential"
    /\ Len(stations) = 2
    /\ StationPoint(stations[1]) = BesideStart
    /\ StationPoint(stations[2]) = OnRoadNear
    /\ Len(availableStations) = 2
    /\ Len(stopsLocal) >= 1
    /\ stopsLocal[1].station = stations[2]

\* The bands of 10, 20, 30 and 40 km that hold at least one candidate for
\* the iteration the sequential loop is about to run.
C13_BandsWithCandidates ==
    { r \in {10, 20, 30, 40} :
        \E k \in 1..Len(availableStations) :
          /\ PointToLineWithin(StationPoint(availableStations[k]),
                               Slice(osrmPolyline, currentIdx,
                                     SeqNextIdx + LookaheadMargin), r)
          /\ (getDistance(osrmPolyline[currentIdx + 1],
                          StationPoint(availableStations[k])) \div MetersPerKm) * 100
               <= currentBattery * formData.fullRangeKm }

\* A step of the sequential loop that ends it for want of a station.
SeqDeclaresStranded == pc = "loop" /\ stranded' /\ ~stranded

\* C13: the station of a charging stop appended by sequential planning lies
\* within the narrowest of the bands 10, 20, 30, 40 km that holds a
\* candidate (every narrower band being empty), and the loop ends for want
\* of a station only when all four bands are empty; with a candidate in some
\* band the iteration that runs out before the end appends a stop.
C13_ExpandingSearch ==
    [][ /\ SeqAppendsStop =>
             /\ C13_BandsWithCandidates # {}
             /\ \E r \in C13_BandsWithCandidates :
                  /\ \A q \in C13_BandsWithCandidates : r <= q
                  /\ PointToLineWithin(
                         StationPoint(stopsLocal'[Len(stopsLocal')].station),
                         Slice(osrmPolyline, currentIdx, SeqNextIdx + LookaheadMargin), r)
        /\ SeqDeclaresStranded => C13_BandsWithCandidates = {}
        /\ (pc = "loop" /\ pc' = "legs" /\ C13_BandsWithCandidates # {})
             => stopPoints'[Len(stopPoints')] = trip[Len(trip)] ]_vars

\* Sequential planning stopped a second time at the one station, beside the
\* start: from the second current point it is more than 10 km from the road
\* ahead, so the 10 km band was empty and the 20 km band was used.
C13_Witness ==
    /\ mode = "sequential"
    /\ Len(stopsLocal) = 2
    /\ currentIdx = 1
    /\ StationPoint(stopsLocal[2].station) = BesideStart
    /\ ~PointToLineWithin(BesideStart, Slice(osrmPolyline, 1, Len(osrmPolyline)), 10)
    /\ PointToLineWithin(BesideStart, Slice(osrmPolyline, 1, Len(osrmPolyline)), 20)

\* The straight-line length of the trip, in kilometres.
TripStraightKm ==
    calculateDistance(trip[1][1], trip[1][2], trip[Len(trip)][1], trip[Len(trip)][2])

C15_TripNeedsCharge ==
    /\ TripStraightKm * 100 > formData.batteryPercent * formData.fullRangeKm
    /\ TripStraightKm <= formData.fullRangeKm

\* Station s is within the initial usable range of the start.
C15_NearStart(s) ==
    calculateDistance(trip[1][1], trip[1][2], s.latitude, s.longitude) * 100
      <= formData.batteryPercent * formData.fullRangeKm

\* The straight-line distance from station s to the destination.
C15_ToDestKm(s) ==
    calculateDistance(s.latitude, s.longitude, trip[Len(trip)][1], trip[Len(trip)][2])

\* The result holds exactly one charging stop, between start and destination.
C15_OneStop(stops) ==
    /\ Len(stops) = 3
    /\ stops[1].type = "start"
    /\ stops[2].type = "charging_stop"
    /\ stops[3].type = "destination"

\* The result ends before the destination.
C15_Stranded(stops) == stops[Len(stops)].type # "destination"

\* C15 as stated: for such a trip the geometry result holds exactly one
\* charging stop if some supplied station is within the initial usable range
\* of the start and within full range of the destination, and is Stranded if
\* no supplied station is.
C15_OneStopOrStranded ==
    (mode = "geometry" /\ pc \in {"geoReturn", "done"} /\ C15_TripNeedsCharge)
      => IF \E k \in 1..Len(nearbyStations) :
              /\ C15_NearStart(nearbyStations[k])
              /\ C15_ToDestKm(nearbyStations[k]) <= formData.fullRangeKm
         THEN C15_OneStop(routeWithStops)
         ELSE C15_Stranded(routeWithStops)

\* C15, amended: for such a trip the geometry result holds exactly one
\* charging stop if some supplied station is within the initial usable range
\* of the start and strictly closer to the destination than the start is,
\* and it is the start alone, short of the destination, if no supplied
\* station is within the initial usable range of the start.
C15_OneStopWhenProgress ==
    (mode = "geometry" /\ pc \in {"geoReturn", "done"} /\ C15_TripNeedsCharge)
      => /\ (\E k \in 1..Len(nearbyStations) :
               /\ C15_NearStart(nearbyStations[k])
               /\ C15_ToDestKm(nearbyStations[k]) < TripStraightKm)
             => C15_OneStop(routeWithStops)
         /\ (\A k \in 1..Len(nearbyStations) : ~C15_NearStart(nearbyStations[k]))
             => /\ Len(routeWithStops) = 1
                /\ C15_Stranded(routeWithStops)

\* Geometry planning returned one charging stop for the 50 km trip on half of
\* a 50 km range: the station on the road, passed over the one beside the
\* start, which is as near but farther from the destination than the start.
C15_Witness ==
    /\ mode = "geometry"
    /\ pc = "done"
    /\ C15_TripNeedsCharge
    /\ TripStraightKm = 50
    /\ Len(stations) = 2
    /\ StationPoint(stations[1]) = BesideStart
    /\ StationPoint(stations[2]) = OnRoadNear
    /\ C15_OneStop(routeData.chargingStops)
    /\ routeData.chargingStops[2].station = stations[2]

\* Sequential planning has published its route with the success toast.
SeqPublished ==
    /\ mode = "sequential"
    /\ pc = "done"
    /\ \E i \in 1..Len(toasts) : toasts[i] = "Routes Calculated"

\* The straight-line distance, in kilometres, from charging stop i of the
\* published plan to the stop after it, or to the destination of the trip
\* for the last stop.
C16_NextLegKm(i) ==
    getDistance(<<smartStops[i].lat, smartStops[i].lng>>,
                IF i < Len(smartStops)
                  THEN <<smartStops[i + 1].lat, smartStops[i + 1].lng>>
                  ELSE trip[Len(trip)]) \div MetersPerKm

\* C16: every charge time sequential planning publishes for a stop at a
\* station of positive power equals
\* (batteryCapacityKWh / fullRangeKm * distanceKm) / powerKw hours, with
\* distanceKm the distance from the stop to the next stop, or to the
\* destination for the last stop (the published list holds 0 for an
\* estimate of at most 0.01 h); for 40 kWh, 320 km, 80 km and 50 kW the
\* estimate is 0.2 h.
C16_ChargeTimeFormula ==
    /\ estimateChargingTime(80, 320, 50, 40).num * 10
         = 2 * estimateChargingTime(80, 320, 50, 40).den
    /\ SeqPublished =>
         /\ Len(smartChargeTimes) = Len(smartStops)
         /\ \A i \in 1..Len(smartStops) :
              smartStops[i].station.power_rating_kw > 0 =>
                IF formData.batteryCapacityKWh * C16_NextLegKm(i) * 100
                     <= formData.fullRangeKm * smartStops[i].station.power_rating_kw
                THEN smartChargeTimes[i].num = 0
                ELSE smartChargeTimes[i].num * formData.fullRangeKm
                         * smartStops[i].station.power_rating_kw
                       = formData.batteryCapacityKWh * C16_NextLegKm(i)
                           * smartChargeTimes[i].den

\* C17: a call of the charging-time computation with power rating 0 does
\* not return a finite number of hours.
C17_ZeroPowerFails ==
    (/\ estimate # Null
     /\ estimate.hours # Null
     /\ estimate.call.powerKw = 0)
      => "num" \notin DOMAIN estimate.hours

\* C18: in sequential planning at most one per-leg routing request awaits
\* its response at any moment; a request in flight is the one for the first
\* leg not yet answered, so that the request for leg i + 1 is issued only
\* after the response for leg i; the legs are requested in stopPoints order
\* with none skipped; and a planning attempt that publishes has issued
\* exactly |stopPoints| - 1 leg requests.
C18_LegRequestsOneAtATime ==
    mode = "sequential" =>
        /\ Cardinality(legInFlight) <= 1
        /\ legInFlight \subseteq {legIdx}
        /\ pc = "legs" => legRequests = legIdx + Cardinality(legInFlight)
        /\ legRequests <= Max(0, Len(stopPoints) - 1)
        /\ SeqPublished => legRequests = Len(stopPoints) - 1

\* The request for the third leg is in flight, the first two legs answered.
C18_Witness ==
    /\ mode = "sequential"
    /\ pc = "legs"
    /\ legInFlight = {2}
    /\ legIdx = 2
    /\ legRequests = 3
    /\ Len(stopPoints) >= 4

\* The road leg between entries i and i + 1 of stopPoints.
C20_Leg(i) == OsrmRoute(stopPoints[i], stopPoints[i + 1], trip)

\* The first leg whole, then every later leg up to leg n less its first point.
RECURSIVE C20_Joined(_)
C20_Joined(n) ==
    IF n = 0 THEN <<>>
    ELSE IF n = 1 THEN C20_Leg(1)
    ELSE C20_Joined(n - 1) \o Tail(C20_Leg(n))

\* The sum of the lengths (numbers of points) of the legs up to leg n.
RECURSIVE C20_LegPoints(_)
C20_LegPoints(n) == IF n = 0 THEN 0 ELSE C20_LegPoints(n - 1) + Len(C20_Leg(n))

\* C20: the smart polyline sequential planning publishes is the first road
\* leg between consecutive stopPoints followed, in stopPoints order, by every
\* later leg without its first point; with at least one leg its number of
\* points is the sum of the legs' numbers of points less (number of legs - 1).
C20_PolylineIsJoinedLegs ==
    SeqPublished =>
        /\ smartPolyline = C20_Joined(Len(stopPoints) - 1)
        /\ Len(stopPoints) >= 2 =>
             Len(smartPolyline) = C20_LegPoints(Len(stopPoints) - 1) - (Len(stopPoints) - 2)

\* A published smart polyline of three legs, the last of them a stretch of
\* road of more than two points.
C20_Witness ==
    /\ SeqPublished
    /\ Len(stopPoints) = 4
    /\ Len(C20_Leg(3)) > 2
    /\ Len(smartPolyline) > 4
    /\ smartPolyline[Len(smartPolyline)] = trip[Len(trip)]

\* The smart route of the page is as handleFormSubmit cleared it.
SmartRouteCleared ==
    /\ smartPolyline = <<>>
    /\ smartStops = <<>>
    /\ smartDistance = 0
    /\ smartChargeTimes = <<>>
    /\ minChargeTimes = <<>>

\* A step in which a routing-provider request fails: the attempt ends while
\* the main-route request or a per-leg request awaits its response.
RoutingRequestFails ==
    /\ \/ pc = "fetchMain"
       \/ pc = "legs" /\ legInFlight # {}
    /\ pc' = "done"

\* C19: a step in which a routing-provider request of a sequential planning
\* attempt fails (the main-route request or a per-leg request) ends the
\* attempt with the "Error" toast and calculating reset, and leaves the
\* smart polyline, smart stops, smart distance and both charge-time lists
\* cleared; an attempt that showed the "Error" toast shows no "Routes
\* Calculated" toast.
C19_ProviderFailurePublishesNothing ==
    [][ /\ RoutingRequestFails =>
             /\ toasts' = Append(toasts, "Error")
             /\ ~calculating'
             /\ SmartRouteCleared'
        /\ (\E i \in 1..Len(toasts') : toasts'[i] = "Error") =>
             /\ SmartRouteCleared'
             /\ \A i \in 1..Len(toasts') : toasts'[i] # "Routes Calculated" ]_vars

\* The request for a later leg failed after earlier legs had arrived: the
\* attempt ended with the "Error" toast, the legs received so far unpublished.
C19_Witness ==
    /\ mode = "sequential"
    /\ pc = "done"
    /\ toasts[Len(toasts)] = "Error"
    /\ legIdx >= 1
    /\ polyLocal # <<>>
    /\ Len(stopsLocal) >= 1
    /\ SmartRouteCleared

RECURSIVE C23_Travelled(_)
C23_Travelled(i) ==
    IF i <= 1 THEN 0
    ELSE C23_Travelled(i - 1)
           + calculateDistance(routeWithStops[i - 1].lat, routeWithStops[i - 1].lng,
                               routeWithStops[i].lat, routeWithStops[i].lng)

\* C23: the distanceFromStart of every entry of a geometry stop list is the
\* cumulative distance from the start up to that entry, the leg that arrives
\* at it included.
C23_DistanceFromStartIsCumulative ==
    mode = "geometry" =>
        \A i \in 1..Len(routeWithStops) :
            routeWithStops[i].distanceFromStart = C23_Travelled(i)

\* The battery percentage left on arrival after distanceKm driven from a
\* battery of departure percent: departure - distanceKm / fullRangeKm * 100,
\* floored at 0.
C24_OnArrival(departure, distanceKm) ==
    IF departure * formData.fullRangeKm >= distanceKm * 100
      THEN (departure * formData.fullRangeKm - distanceKm * 100) \div formData.fullRangeKm
      ELSE 0

\* C24: the batteryLevel recorded on a charging stop is the battery at
\* departure from the entry before it less the share of the full range the
\* leg to the stop takes, floored at 0: in a geometry stop list, and in the
\* stops of sequential planning (whose k-th stop is entry k + 1 of
\* stopPoints).
C24_BatteryBeforeIsDepleted ==
    /\ \A i \in 2..Len(routeWithStops) :
          routeWithStops[i].type = "charging_stop" =>
              routeWithStops[i].batteryLevel
                = C24_OnArrival(DepartureBattery(i - 1),
                     calculateDistance(routeWithStops[i - 1].lat, routeWithStops[i - 1].lng,
                                       routeWithStops[i].lat, routeWithStops[i].lng))
    /\ \A k \in 1..Len(stopsLocal) :
          stopsLocal[k].batteryLevel
            = C24_OnArrival(DepartureBattery(k),
                            getDistance(stopPoints[k], stopPoints[k + 1]) \div MetersPerKm)

\* C25: a trip that would reach the destination with less usable range left
\* than minBatteryThreshold (30 km) gets a charging stop when a supplied
\* station is within the initial usable range of the start.
C25_ThresholdInsertsStop ==
    (/\ mode = "geometry"
     /\ pc \in {"geoReturn", "done"}
     /\ TripStraightKm * 100 <= formData.batteryPercent * formData.fullRangeKm
     /\ formData.batteryPercent * formData.fullRangeKm - TripStraightKm * 100
          < MinBatteryThreshold * 100
     /\ \E k \in 1..Len(nearbyStations) : C15_NearStart(nearbyStations[k]))
      => \E i \in 1..Len(routeWithStops) : routeWithStops[i].type = "charging_stop"

\* C26: with a battery percentage outside 0..100 or a full range of 0 or
\* less in the form, no planning call fetches a route or computes a stop
\* list, and no plan is published.
C26_InvalidInputIsRejected ==
    (\/ formData.batteryPercent < 0
     \/ formData.batteryPercent > 100
     \/ formData.fullRangeKm <= 0)
      => /\ routeWithStops = <<>>
         /\ routeData.chargingStops = <<>>
         /\ osrmPolyline = <<>>
         /\ stopPoints = <<>>

\* The roads of the model run along the line lat = 0 from lng = 0: the square
\* of the distance (km) from station s to the road of the trip.
C27_DistanceSq(s) ==
    LET end == trip[Len(trip)][2]
        beyond == IF s.longitude < 0 THEN 0 - s.longitude
                  ELSE IF s.longitude > end THEN s.longitude - end ELSE 0
    IN  s.latitude * s.latitude + beyond * beyond

\* The stations of the directory within r km of the road, in directory order.
C27_Within(r) == SelectSeq(stations, LAMBDA s : C27_DistanceSq(s) <= r * r)

\* Sequence a is a sub-sequence of sequence b whose entries are all different.
C27_SubSeq(a, b) ==
    /\ \A i \in 1..Len(a) : \E j \in 1..Len(b) : b[j] = a[i]
    /\ \A i, k \in 1..Len(a) :
         i < k => \E j, l \in 1..Len(b) : j < l /\ b[j] = a[i] /\ b[l] = a[k]

\* C27: what findStationsAlongRoute returns (for geometry planning with 25
\* km, for the display with 15 km, and for every search range) is exactly the
\* stations of the input at most maxDistanceKm from the route, in input
\* order, each once; the result for a smaller radius is a sub-sequence of
\* the result for a larger one.
C27_StationsAlongRoute ==
    /\ (mode = "geometry" /\ pc # "idle") => nearbyStations = C27_Within(GeometryBandKm)
    /\ SeqPublished => allDisplayStations = C27_Within(DisplayBandKm)
    /\ pc = "idle" => \A r \in SearchRanges \cup {DisplayBandKm, GeometryBandKm} :
         /\ findStationsAlongRoute(trip, stations, r) = C27_Within(r)
         /\ \A q \in SearchRanges \cup {DisplayBandKm, GeometryBandKm} :
              q <= r => C27_SubSeq(findStationsAlongRoute(trip, stations, q),
                                   findStationsAlongRoute(trip, stations, r))

\* Geometry planning kept, in directory order, a station exactly 25 km from
\* the road and one on the road.
C27_Witness ==
    /\ mode = "geometry"
    /\ pc = "geoLoop"
    /\ Len(stations) = 2
    /\ StationPoint(stations[1]) = OffRoad
    /\ StationPoint(stations[2]) = OnRoadNear
    /\ nearbyStations = stations
    /\ findStationsAlongRoute(trip, stations, SearchRangeStart) = <<stations[2]>>

\* Iterations of the while loop of calculateChargingStops run so far: one for
\* every charging stop, and the one that left the loop.
C28_Iterations ==
    Len(ChargingStopsOf(routeWithStops)) + (IF pc = "geoLoop" THEN 0 ELSE 1)

\* C28: geometry planning terminates: every charging stop takes one station
\* out of the working set, so the loop runs at most |stations| + 1 times
\* and the result has at most |stations| charging stops, whatever progress
\* the chosen stations make.
C28_GeometryLoopIsBounded ==
    (mode = "geometry" /\ pc # "idle") =>
        /\ Len(ChargingStopsOf(routeWithStops)) + Len(remainingStations)
               = Len(findStationsAlongRoute(trip, stations, GeometryBandKm))
        /\ Len(ChargingStopsOf(routeWithStops)) <= Len(stations)
        /\ C28_Iterations <= Len(stations) + 1
        /\ \A i, j \in 1..Len(routeWithStops) :
             (i < j /\ routeWithStops[i].type = "charging_stop"
                    /\ routeWithStops[j].type = "charging_stop")
                 => routeWithStops[i].station.station_id
                        # routeWithStops[j].station.station_id

\* A finished geometry plan that stopped at every station of the directory,
\* one of them farther from the destination than the start is.
C28_Witness ==
    /\ mode = "geometry"
    /\ pc = "done"
    /\ Len(stations) = MaxStations
    /\ Len(ChargingStopsOf(routeWithStops)) = Len(stations)
    /\ \E i \in 1..Len(routeWithStops) :
         /\ routeWithStops[i].type = "charging_stop"
         /\ calculateDistance(routeWithStops[i].lat, routeWithStops[i].lng,
                              trip[Len(trip)][1], trip[Len(trip)][2])
              > calculateDistance(trip[1][1], trip[1][2],
                                  trip[Len(trip)][1], trip[Len(trip)][2])

\* C29: sequential planning terminates: no iteration of the stop-finding
\* loop that inserts a charging stop leaves the loop where it was (the same
\* currentIdx with the same battery, over the same polyline and stations),
\* so the loop reaches the end of the polyline or declares Stranded after
\* finitely many stops.
C29_StopMakesProgress ==
    [][SeqAppendsStop => <<currentIdx', currentBattery'>> # <<currentIdx, currentBattery>>]_vars

\* The page showed the location error.
C30_LocationError == \E i \in 1..Len(toasts) : toasts[i] = "Location Error"

\* C30: when geocoding finds no place for the start or the destination the
\* attempt ends with the location error alone: no request goes to the
\* routing provider (no main route, no leg), nothing of a route is
\* published (polylines, stops, distances and coordinates stay cleared) and
\* calculating is false again.
C30_GeocodingFailureEndsAttempt ==
    C30_LocationError =>
        /\ pc = "done"
        /\ toasts = <<"Location Error">>
        /\ ~calculating
        /\ osrmPolyline = <<>>
        /\ legRequests = 0
        /\ legInFlight = {}
        /\ stopPoints = <<>>
        /\ mainPolyline = <<>>
        /\ mainDistance = 0
        /\ SmartRouteCleared
        /\ coords = Null

\* A sequential attempt over a directory with stations ended at the
\* location error.
C30_Witness ==
    /\ mode = "sequential"
    /\ pc = "done"
    /\ C30_LocationError
    /\ ~calculating
    /\ Len(stations) = MaxStations

====
